---------------------------- MODULE Spec2Model ----------------------------
(***************************************************************************)
(* InputVerifier (libs/input/rust/input_verifier.rs): the per-device       *)
(* touching / hovering pointer maps and the two operations that change     *)
(* them, process_movement and reset_device.                                *)
(*                                                                         *)
(* A HashMap<DeviceId, HashSet<i32>> is a function whose DOMAIN is the set *)
(* of keys present; a HashSet<i32> is a set of integers.  A slice index    *)
(* that is out of range panics; the panic is an outcome of its own         *)
(* ("Panic"), recorded with the maps as they are at the panicking line.    *)
(* The verifier is reached through the cxx bridge, where a panic ends the  *)
(* process, so no call follows a panic.                                    *)
(***************************************************************************)
EXTENDS Integers, Sequences, FiniteSets, TLC

\* ------------------------------------------------------------------------
\* Bounds of the model
\* ------------------------------------------------------------------------

\* Largest RustPointerProperties.id an event carries
MaxPointerId == 1

\* DeviceId values (the tests use DeviceId(1) and DeviceId(2))
DeviceIds == {1, 2}

\* RustPointerProperties.id values
PointerIds == 0..MaxPointerId

\* Lengths of the pointer lists events carry (the empty list included)
PointerCounts == {0, 1, 2}

\* MotionFlags values: the CANCELED bit and one bit the verifier never reads
MotionFlagBits == {"CANCELED", "WINDOW_IS_OBSCURED"}

MotionFlagSets == SUBSET MotionFlagBits

RustPointerProperties == [id : PointerIds]

PointerLists == UNION {[1..n -> RustPointerProperties] : n \in PointerCounts}

\* action_index values: each is out of range for the shorter pointer lists
ActionIndexes == {0, 1}

\* MotionAction: the decoded action; PointerDown and PointerUp carry action_index
MotionActions ==
    {[kind |-> k, action_index |-> 0] :
        k \in {"Down", "Move", "Up", "Cancel", "HoverEnter", "HoverMove",
               "HoverExit", "Other"}}
    \cup {[kind |-> k, action_index |-> i] :
            k \in {"PointerDown", "PointerUp"}, i \in ActionIndexes}

\* ------------------------------------------------------------------------
\* HashMap / HashSet / slice helpers
\* ------------------------------------------------------------------------

contains_key(map, key) == key \in DOMAIN map

map_remove(map, key) == [k \in (DOMAIN map) \ {key} |-> map[k]]

\* map.entry(key).or_insert_with(HashSet::new): the map with the entry present
entry_or_insert_with(map, key) ==
    IF key \in DOMAIN map THEN map
    ELSE [k \in (DOMAIN map) \cup {key} |-> IF k = key THEN {} ELSE map[k]]

\* pointer_properties[index] is in range (0-based index)
in_bounds(pointer_properties, index) == index + 1 <= Len(pointer_properties)

\* pointer_properties[index].id (0-based index)
id_at(pointer_properties, index) == pointer_properties[index + 1].id

\* the identifiers an event's pointer list carries
ids_of(pointer_properties) ==
    {pointer_properties[i].id : i \in 1..Len(pointer_properties)}

\* Result<(), String> plus the panic outcome, with the maps the call leaves
Outcome(t, h, r) == [touching |-> t, hovering |-> h, result |-> r]

\* ------------------------------------------------------------------------
\* InputVerifier::ensure_touching_pointers_match
\* ------------------------------------------------------------------------

\* The same test with the sets required to be equal
ensure_touching_pointers_match_Equal(touching, device_id, pointer_properties) ==
    IF ~contains_key(touching, device_id) THEN FALSE
    ELSE ids_of(pointer_properties) = touching[device_id]

ensure_touching_pointers_match(touching, device_id, pointer_properties) ==
    IF ~contains_key(touching, device_id) THEN FALSE
    ELSE \A i \in 1..Len(pointer_properties) :
            pointer_properties[i].id \in touching[device_id]

\* ------------------------------------------------------------------------
\* InputVerifier::process_movement, one operator per match arm
\* ------------------------------------------------------------------------

\* Down that refuses a pointer that is hovering on the device
Down_RejectsHovering(touching, hovering, device_id, pointer_properties) ==
    LET t1 == entry_or_insert_with(touching, device_id)
        it == t1[device_id]
    IN  IF ~in_bounds(pointer_properties, 0) THEN Outcome(t1, hovering, "Panic")
        ELSE LET pointer_id == id_at(pointer_properties, 0)
             IN  IF \/ pointer_id \in it
                    \/ /\ contains_key(hovering, device_id)
                       /\ pointer_id \in hovering[device_id]
                     THEN Outcome(t1, hovering, "Err")
                 ELSE Outcome([t1 EXCEPT ![device_id] = it \cup {pointer_id}],
                              hovering, "Ok")

\* Down without the test that the pointer is already down
Down_NoDuplicateCheck(touching, hovering, device_id, pointer_properties) ==
    LET t1 == entry_or_insert_with(touching, device_id)
    IN  IF ~in_bounds(pointer_properties, 0) THEN Outcome(t1, hovering, "Panic")
        ELSE Outcome([t1 EXCEPT ![device_id] =
                            t1[device_id] \cup {id_at(pointer_properties, 0)}],
                     hovering, "Ok")

Down(touching, hovering, device_id, pointer_properties) ==
    LET t1 == entry_or_insert_with(touching, device_id)
        it == t1[device_id]
    IN  IF ~in_bounds(pointer_properties, 0) THEN Outcome(t1, hovering, "Panic")
        ELSE LET pointer_id == id_at(pointer_properties, 0)
             IN  IF pointer_id \in it THEN Outcome(t1, hovering, "Err")
                 ELSE Outcome([t1 EXCEPT ![device_id] = it \cup {pointer_id}],
                              hovering, "Ok")

PointerDown(touching, hovering, device_id, action_index, pointer_properties) ==
    IF ~contains_key(touching, device_id) THEN Outcome(touching, hovering, "Err")
    ELSE LET it == touching[device_id]
         IN  IF ~in_bounds(pointer_properties, action_index)
                 THEN Outcome(touching, hovering, "Panic")
             ELSE LET pointer_id == id_at(pointer_properties, action_index)
                  IN  IF pointer_id \in it THEN Outcome(touching, hovering, "Err")
                      ELSE Outcome([touching EXCEPT
                                       ![device_id] = it \cup {pointer_id}],
                                   hovering, "Ok")

\* Move that makes an entry for a device that has none
Move_OrInsert(touching, hovering, device_id, pointer_properties) ==
    IF ~ensure_touching_pointers_match(touching, device_id, pointer_properties)
        THEN Outcome(entry_or_insert_with(touching, device_id), hovering, "Err")
    ELSE Outcome(touching, hovering, "Ok")

Move(touching, hovering, device_id, pointer_properties) ==
    IF ~ensure_touching_pointers_match(touching, device_id, pointer_properties)
        THEN Outcome(touching, hovering, "Err")
    ELSE Outcome(touching, hovering, "Ok")

\* PointerUp that makes the entry when the device has none
PointerUp_OrInsert(touching, hovering, device_id, action_index, pointer_properties) ==
    LET t1 == entry_or_insert_with(touching, device_id)
    IN  IF ~in_bounds(pointer_properties, action_index)
            THEN Outcome(t1, hovering, "Panic")
        ELSE Outcome([t1 EXCEPT ![device_id] =
                            t1[device_id] \ {id_at(pointer_properties, action_index)}],
                     hovering, "Ok")

\* PointerUp that drops the entry when it removes the last pointer
PointerUp_RemovesEmptyEntry(touching, hovering, device_id, action_index, pointer_properties) ==
    IF ~contains_key(touching, device_id) THEN Outcome(touching, hovering, "Err")
    ELSE IF ~in_bounds(pointer_properties, action_index)
        THEN Outcome(touching, hovering, "Panic")
    ELSE LET it == touching[device_id] \ {id_at(pointer_properties, action_index)}
         IN  IF it = {} THEN Outcome(map_remove(touching, device_id), hovering, "Ok")
             ELSE Outcome([touching EXCEPT ![device_id] = it], hovering, "Ok")

\* PointerUp that rejects a pointer that is not down
PointerUp_RejectsAbsent(touching, hovering, device_id, action_index, pointer_properties) ==
    IF ~contains_key(touching, device_id) THEN Outcome(touching, hovering, "Err")
    ELSE IF ~in_bounds(pointer_properties, action_index)
        THEN Outcome(touching, hovering, "Panic")
    ELSE LET pointer_id == id_at(pointer_properties, action_index)
         IN  IF pointer_id \notin touching[device_id]
                 THEN Outcome(touching, hovering, "Err")
             ELSE Outcome([touching EXCEPT
                              ![device_id] = touching[device_id] \ {pointer_id}],
                          hovering, "Ok")

PointerUp(touching, hovering, device_id, action_index, pointer_properties) ==
    IF ~contains_key(touching, device_id) THEN Outcome(touching, hovering, "Err")
    ELSE LET it == touching[device_id]
         IN  IF ~in_bounds(pointer_properties, action_index)
                 THEN Outcome(touching, hovering, "Panic")
             ELSE LET pointer_id == id_at(pointer_properties, action_index)
                  IN  Outcome([touching EXCEPT ![device_id] = it \ {pointer_id}],
                              hovering, "Ok")

\* Up that clears the whole touching map
Up_ClearsMap(touching, hovering, device_id, pointer_properties) ==
    IF ~contains_key(touching, device_id) THEN Outcome(touching, hovering, "Err")
    ELSE IF Cardinality(touching[device_id]) # 1
        THEN Outcome(touching, hovering, "Err")
    ELSE IF ~in_bounds(pointer_properties, 0)
        THEN Outcome(touching, hovering, "Panic")
    ELSE IF id_at(pointer_properties, 0) \notin touching[device_id]
        THEN Outcome(touching, hovering, "Err")
    ELSE Outcome(<<>>, hovering, "Ok")

\* Up without the test that exactly one pointer is down
Up_NoLenCheck(touching, hovering, device_id, pointer_properties) ==
    IF ~contains_key(touching, device_id) THEN Outcome(touching, hovering, "Err")
    ELSE IF ~in_bounds(pointer_properties, 0)
        THEN Outcome(touching, hovering, "Panic")
    ELSE IF id_at(pointer_properties, 0) \notin touching[device_id]
        THEN Outcome(touching, hovering, "Err")
    ELSE Outcome(map_remove(touching, device_id), hovering, "Ok")

\* Up that removes the pointer from the set, as PointerUp does, not the entry
Up_LeavesEmptyEntry(touching, hovering, device_id, pointer_properties) ==
    IF ~contains_key(touching, device_id) THEN Outcome(touching, hovering, "Err")
    ELSE IF Cardinality(touching[device_id]) # 1
        THEN Outcome(touching, hovering, "Err")
    ELSE IF ~in_bounds(pointer_properties, 0)
        THEN Outcome(touching, hovering, "Panic")
    ELSE IF id_at(pointer_properties, 0) \notin touching[device_id]
        THEN Outcome(touching, hovering, "Err")
    ELSE Outcome([touching EXCEPT ![device_id] = {}], hovering, "Ok")

Up(touching, hovering, device_id, pointer_properties) ==
    IF ~contains_key(touching, device_id) THEN Outcome(touching, hovering, "Err")
    ELSE LET it == touching[device_id]
         IN  IF Cardinality(it) # 1 THEN Outcome(touching, hovering, "Err")
             ELSE IF ~in_bounds(pointer_properties, 0)
                 THEN Outcome(touching, hovering, "Panic")
             ELSE LET pointer_id == id_at(pointer_properties, 0)
                  IN  IF pointer_id \notin it
                          THEN Outcome(touching, hovering, "Err")
                      ELSE Outcome(map_remove(touching, device_id), hovering, "Ok")

\* Cancel without the test of the CANCELED bit
Cancel_NoFlagCheck(touching, hovering, device_id, pointer_properties, flags) ==
    IF ~ensure_touching_pointers_match(touching, device_id, pointer_properties)
        THEN Outcome(touching, hovering, "Err")
    ELSE Outcome(map_remove(touching, device_id), hovering, "Ok")

\* Cancel that empties the device's set and keeps the entry
Cancel_LeavesEmptyEntry(touching, hovering, device_id, pointer_properties, flags) ==
    IF "CANCELED" \notin flags THEN Outcome(touching, hovering, "Err")
    ELSE IF ~ensure_touching_pointers_match(touching, device_id, pointer_properties)
        THEN Outcome(touching, hovering, "Err")
    ELSE Outcome([touching EXCEPT ![device_id] = {}], hovering, "Ok")

Cancel(touching, hovering, device_id, pointer_properties, flags) ==
    IF "CANCELED" \notin flags THEN Outcome(touching, hovering, "Err")
    ELSE IF ~ensure_touching_pointers_match(touching, device_id, pointer_properties)
        THEN Outcome(touching, hovering, "Err")
    ELSE Outcome(map_remove(touching, device_id), hovering, "Ok")

\* HoverEnter without the test that the device is hovering already
HoverEnter_NoEntryCheck(touching, hovering, device_id, pointer_properties) ==
    LET h1 == entry_or_insert_with(hovering, device_id)
    IN  IF ~in_bounds(pointer_properties, 0) THEN Outcome(touching, h1, "Panic")
        ELSE Outcome(touching,
                     [h1 EXCEPT ![device_id] =
                           h1[device_id] \cup {id_at(pointer_properties, 0)}],
                     "Ok")

HoverEnter(touching, hovering, device_id, pointer_properties) ==
    IF contains_key(hovering, device_id) THEN Outcome(touching, hovering, "Err")
    ELSE LET h1 == entry_or_insert_with(hovering, device_id)
             it == h1[device_id]
         IN  IF ~in_bounds(pointer_properties, 0) THEN Outcome(touching, h1, "Panic")
             ELSE Outcome(touching,
                          [h1 EXCEPT ![device_id] =
                                it \cup {id_at(pointer_properties, 0)}],
                          "Ok")

\* HoverMove that needs a prior HoverEnter
HoverMove_RequiresEntry(touching, hovering, device_id, pointer_properties) ==
    IF ~contains_key(hovering, device_id) THEN Outcome(touching, hovering, "Err")
    ELSE IF ~in_bounds(pointer_properties, 0)
        THEN Outcome(touching, hovering, "Panic")
    ELSE Outcome(touching,
                 [hovering EXCEPT ![device_id] =
                       hovering[device_id] \cup {id_at(pointer_properties, 0)}],
                 "Ok")

HoverMove(touching, hovering, device_id, pointer_properties) ==
    LET h1 == entry_or_insert_with(hovering, device_id)
        it == h1[device_id]
    IN  IF ~in_bounds(pointer_properties, 0) THEN Outcome(touching, h1, "Panic")
        ELSE Outcome(touching,
                     [h1 EXCEPT ![device_id] =
                           it \cup {id_at(pointer_properties, 0)}],
                     "Ok")

\* HoverExit that empties the set and keeps the entry
HoverExit_LeavesEmptyEntry(touching, hovering, device_id, pointer_properties) ==
    IF ~contains_key(hovering, device_id) THEN Outcome(touching, hovering, "Err")
    ELSE IF ~in_bounds(pointer_properties, 0)
        THEN Outcome(touching, hovering, "Panic")
    ELSE LET it == hovering[device_id] \ {id_at(pointer_properties, 0)}
             h1 == [hovering EXCEPT ![device_id] = it]
         IN  IF it # {} THEN Outcome(touching, h1, "Err")
             ELSE Outcome(touching, h1, "Ok")

HoverExit(touching, hovering, device_id, pointer_properties) ==
    IF ~contains_key(hovering, device_id) THEN Outcome(touching, hovering, "Err")
    ELSE IF ~in_bounds(pointer_properties, 0)
        THEN Outcome(touching, hovering, "Panic")
    ELSE LET pointer_id == id_at(pointer_properties, 0)
             it == hovering[device_id] \ {pointer_id}
             h1 == [hovering EXCEPT ![device_id] = it]
         IN  IF it # {} THEN Outcome(touching, h1, "Err")
             ELSE Outcome(touching, map_remove(h1, device_id), "Ok")

\* process_movement whose catch-all arm rejects
process_movement_OtherRejected(touching, hovering, device_id, action, pointer_properties, flags) ==
    CASE action.kind = "Down" ->
            Down(touching, hovering, device_id, pointer_properties)
      [] action.kind = "PointerDown" ->
            PointerDown(touching, hovering, device_id, action.action_index,
                        pointer_properties)
      [] action.kind = "Move" ->
            Move(touching, hovering, device_id, pointer_properties)
      [] action.kind = "PointerUp" ->
            PointerUp(touching, hovering, device_id, action.action_index,
                      pointer_properties)
      [] action.kind = "Up" ->
            Up(touching, hovering, device_id, pointer_properties)
      [] action.kind = "Cancel" ->
            Cancel(touching, hovering, device_id, pointer_properties, flags)
      [] action.kind = "HoverEnter" ->
            HoverEnter(touching, hovering, device_id, pointer_properties)
      [] action.kind = "HoverMove" ->
            HoverMove(touching, hovering, device_id, pointer_properties)
      [] action.kind = "HoverExit" ->
            HoverExit(touching, hovering, device_id, pointer_properties)
      [] OTHER -> Outcome(touching, hovering, "Err")

process_movement(touching, hovering, device_id, action, pointer_properties, flags) ==
    CASE action.kind = "Down" ->
            Down(touching, hovering, device_id, pointer_properties)
      [] action.kind = "PointerDown" ->
            PointerDown(touching, hovering, device_id, action.action_index,
                        pointer_properties)
      [] action.kind = "Move" ->
            Move(touching, hovering, device_id, pointer_properties)
      [] action.kind = "PointerUp" ->
            PointerUp(touching, hovering, device_id, action.action_index,
                      pointer_properties)
      [] action.kind = "Up" ->
            Up(touching, hovering, device_id, pointer_properties)
      [] action.kind = "Cancel" ->
            Cancel(touching, hovering, device_id, pointer_properties, flags)
      [] action.kind = "HoverEnter" ->
            HoverEnter(touching, hovering, device_id, pointer_properties)
      [] action.kind = "HoverMove" ->
            HoverMove(touching, hovering, device_id, pointer_properties)
      [] action.kind = "HoverExit" ->
            HoverExit(touching, hovering, device_id, pointer_properties)
      [] OTHER -> Outcome(touching, hovering, "Ok")

\* ------------------------------------------------------------------------
\* InputVerifier::reset_device
\* ------------------------------------------------------------------------

\* reset_device that clears both maps
reset_device_ClearsMaps(touching, hovering, device_id) ==
    Outcome(<<>>, <<>>, "Ok")

\* reset_device that forgets the touching map
reset_device_HoveringOnly(touching, hovering, device_id) ==
    Outcome(touching, map_remove(hovering, device_id), "Ok")

reset_device(touching, hovering, device_id) ==
    Outcome(map_remove(touching, device_id), map_remove(hovering, device_id), "Ok")

\* ------------------------------------------------------------------------
\* InputFilter
\* ------------------------------------------------------------------------

\* Values of InputFilterConfiguration.bounceKeysThresholdNs
BounceKeysThresholds == {-1, 0, 1, 100}

InputFilterConfigurations ==
    [bounceKeysThresholdNs : BounceKeysThresholds, stickyKeysEnabled : BOOLEAN]

\* The key events and the device lists the callers pass
KeyEvents == [deviceId : {1}, action : {"DOWN", "UP"}]

DeviceInfoLists == {<<>>, <<[deviceId |-> 0, external |-> TRUE]>>}

\* A filter of the chain; a BounceKeysFilter keeps its threshold
FilterOf(kind, threshold) == [kind |-> kind, threshold |-> threshold]

BaseFilter == FilterOf("BaseFilter", 0)

\* InputFilter::create_input_filter that makes the filter enabled
create_input_filter_Enabled(first_filter) ==
    [first_filter |-> first_filter, enabled |-> TRUE]

\* InputFilter::create_input_filter: the InputFilterState of a new InputFilter
create_input_filter(first_filter) ==
    [first_filter |-> first_filter, enabled |-> FALSE]

\* notifyConfigurationChanged where only sticky keys enable the filter
notifyConfigurationChanged_StickyOnly(filter_state, config) ==
    LET base    == <<BaseFilter>>
        sticky  == config.stickyKeysEnabled
        bounce  == config.bounceKeysThresholdNs > 0
        filter1 == IF sticky THEN <<FilterOf("StickyKeysFilter", 0)>> \o base
                   ELSE base
        filter2 == IF bounce
                       THEN <<FilterOf("BounceKeysFilter",
                                       config.bounceKeysThresholdNs)>> \o filter1
                   ELSE filter1
    IN  [first_filter |-> filter2,
         enabled |-> IF sticky THEN TRUE ELSE filter_state.enabled]

\* InputFilter::notifyConfigurationChanged: the chain is built anew, the head
\* last; enabled is set when a filter is installed and is written nowhere else
notifyConfigurationChanged(filter_state, config) ==
    LET base     == <<BaseFilter>>
        sticky   == config.stickyKeysEnabled
        bounce   == config.bounceKeysThresholdNs > 0
        filter1  == IF sticky THEN <<FilterOf("StickyKeysFilter", 0)>> \o base
                    ELSE base
        enabled1 == IF sticky THEN TRUE ELSE filter_state.enabled
        filter2  == IF bounce
                        THEN <<FilterOf("BounceKeysFilter",
                                        config.bounceKeysThresholdNs)>> \o filter1
                    ELSE filter1
        enabled2 == IF bounce THEN TRUE ELSE enabled1
    IN  [first_filter |-> filter2, enabled |-> enabled2]

\* InputFilter::isEnabled
isEnabled(filter_state) == filter_state.enabled

\* ------------------------------------------------------------------------
\* State
\* ------------------------------------------------------------------------

VARIABLES
    touching_pointer_ids_by_device,  \* InputVerifier.touching_pointer_ids_by_device
    hovering_pointer_ids_by_device,  \* InputVerifier.hovering_pointer_ids_by_device
    pc,          \* the caller: "idle", "returned" or "panicked"
    last,        \* the call that has just returned or panicked (NoCall when idle)
    pre,         \* history: the maps and down_since as that call found them
    down_since,  \* history: per device, an accepted Down has occurred with no
                 \* reset_device, accepted Up or accepted Cancel after it
    stream,      \* history: progress of a Down(P), Move({P}), Up(P) sequence
    hover_stream,  \* history: progress of a HoverEnter(P), HoverMove(P),
                   \* HoverExit(P), HoverEnter(P) sequence
    fresh,       \* history: per device, a verifier made by InputVerifier::new
                 \* at the device's last reset_device (at construction, before
                 \* the first) and given that device's events since
    name,        \* InputVerifier.name
    should_log,  \* InputVerifier.should_log
    logged,      \* the lines the call that has just returned wrote to the log
    twin,        \* a second verifier, made with another name and with
                 \* should_log set, given the same calls (<<>>: there is none)
    state,       \* InputFilter.state: [first_filter, enabled], behind its Mutex
    filter_pc,   \* the InputFilter's caller: "idle" or "returned"
    filter_last, \* the InputFilter call that has just returned, with the
                 \* state it found (<<>> when idle)
    applied      \* history: the configurations given to
                 \* notifyConfigurationChanged so far, the last one kept

verifier_vars ==
    <<touching_pointer_ids_by_device, hovering_pointer_ids_by_device,
      pc, last, pre, down_since, stream, hover_stream, fresh,
      name, should_log, logged, twin>>

filter_vars == <<state, filter_pc, filter_last, applied>>

vars == <<verifier_vars, filter_vars>>

NoCall ==
    [op |-> "none", device_id |-> 0, action |-> [kind |-> "Other", action_index |-> 0],
     pointer_properties |-> <<>>, flags |-> {}, result |-> "Ok"]

NoPre ==
    [touching |-> <<>>, hovering |-> <<>>, down_since |-> [d \in DeviceIds |-> FALSE]]

NoStream == [stage |-> 0, device_id |-> 0, pointer_id |-> 0, ok |-> TRUE]

\* down_since after a call
NextDownSince(ds, call) ==
    IF call.op = "reset_device" THEN [ds EXCEPT ![call.device_id] = FALSE]
    ELSE IF call.result # "Ok" THEN ds
    ELSE IF call.action.kind = "Down" THEN [ds EXCEPT ![call.device_id] = TRUE]
    ELSE IF call.action.kind \in {"Up", "Cancel"}
        THEN [ds EXCEPT ![call.device_id] = FALSE]
    ELSE ds

\* stream after a call: stage 1 after Down(P) on a device that had no touching
\* entry, stage 2 after the Move({P}) that follows it on that device, stage 3 after
\* the Up(P) that follows that; calls for other devices do not interrupt it, any
\* other call for the device ends it. ok: every step so far was accepted.
NextStream(s, touching, call) ==
    LET d  == call.device_id
        pp == call.pointer_properties
        pm == call.op = "process_movement"
        k  == call.action.kind
    IN  IF s.stage \in {1, 2} /\ d # s.device_id THEN s
        ELSE IF s.stage = 1 /\ pm /\ k = "Move" /\ ids_of(pp) = {s.pointer_id}
            THEN [s EXCEPT !.stage = 2, !.ok = s.ok /\ call.result = "Ok"]
        ELSE IF s.stage = 2 /\ pm /\ k = "Up" /\ in_bounds(pp, 0)
                /\ id_at(pp, 0) = s.pointer_id
            THEN [s EXCEPT !.stage = 3, !.ok = s.ok /\ call.result = "Ok"]
        ELSE IF pm /\ k = "Down" /\ ~contains_key(touching, d) /\ in_bounds(pp, 0)
            THEN [stage |-> 1, device_id |-> d, pointer_id |-> id_at(pp, 0),
                  ok |-> call.result = "Ok"]
        ELSE NoStream

\* hover_stream after a call: stage 1 after HoverEnter(P) on a device that had no
\* hovering entry, then stage 2 after HoverMove(P), stage 3 after HoverExit(P) and
\* stage 4 after HoverEnter(P), each the next call for that device; calls for
\* other devices do not interrupt it. ok: every step so far was accepted.
NextHoverStream(s, hovering, call) ==
    LET d    == call.device_id
        pp   == call.pointer_properties
        k    == call.action.kind
        step(kind) == /\ call.op = "process_movement"
                      /\ k = kind
                      /\ in_bounds(pp, 0)
                      /\ id_at(pp, 0) = s.pointer_id
        on(stage) == [s EXCEPT !.stage = stage, !.ok = s.ok /\ call.result = "Ok"]
    IN  IF s.stage \in {1, 2, 3} /\ d # s.device_id THEN s
        ELSE IF s.stage = 1 /\ step("HoverMove") THEN on(2)
        ELSE IF s.stage = 2 /\ step("HoverExit") THEN on(3)
        ELSE IF s.stage = 3 /\ step("HoverEnter") THEN on(4)
        ELSE IF call.op = "process_movement" /\ k = "HoverEnter"
                /\ ~contains_key(hovering, d) /\ in_bounds(pp, 0)
            THEN [stage |-> 1, device_id |-> d, pointer_id |-> id_at(pp, 0),
                  ok |-> call.result = "Ok"]
        ELSE NoStream

\* A verifier as InputVerifier::new makes it
NewFresh == [touching |-> <<>>, hovering |-> <<>>, same |-> TRUE]

\* fresh after a call: reset_device(d) puts a newly constructed verifier in
\* fresh[d]; a process_movement for d is given to fresh[d] as well, which sees
\* no other call. same: it has returned what the verifier returned, every time.
NextFresh(f, call) ==
    LET d == call.device_id
    IN  IF call.op = "reset_device" THEN [f EXCEPT ![d] = NewFresh]
        ELSE LET out == process_movement(f[d].touching, f[d].hovering, d,
                                         call.action, call.pointer_properties,
                                         call.flags)
             IN  [f EXCEPT ![d] = [touching |-> out.touching,
                                   hovering |-> out.hovering,
                                   same |-> f[d].same /\ out.result = call.result]]

\* The names given to verifiers: the one the tests use, and another
VerifierNames == {"Test", "Other"}

\* The twin as InputVerifier::new makes it
NewTwin(verifier_name, verifier_should_log) ==
    [name |-> verifier_name, should_log |-> verifier_should_log,
     touching |-> <<>>, hovering |-> <<>>, logged |-> <<>>, same |-> TRUE]

\* The line process_movement writes to the log when should_log is set
log_lines(verifier_name, verifier_should_log, device_id, action, pointer_properties) ==
    IF verifier_should_log
        THEN <<[on |-> verifier_name, action |-> action.kind, device_id |-> device_id,
                pointers |-> Len(pointer_properties)]>>
    ELSE <<>>

\* process_movement that returns Ok once it has written its line to the log
process_movement_with_log_ReturnsAfterLog(verifier_name, verifier_should_log, touching, hovering, device_id, action, pointer_properties, flags) ==
    [logged |-> log_lines(verifier_name, verifier_should_log, device_id, action,
                          pointer_properties),
     out |-> IF verifier_should_log THEN Outcome(touching, hovering, "Ok")
             ELSE process_movement(touching, hovering, device_id, action,
                                   pointer_properties, flags)]

\* process_movement from its first line: the log line, then the match
process_movement_with_log(verifier_name, verifier_should_log, touching, hovering, device_id, action, pointer_properties, flags) ==
    [logged |-> log_lines(verifier_name, verifier_should_log, device_id, action,
                          pointer_properties),
     out |-> process_movement(touching, hovering, device_id, action,
                              pointer_properties, flags)]

\* twin after a call: it is given the call too. same: it has returned what the
\* verifier returned, every time.
NextTwin(t, call) ==
    IF t = <<>> THEN t
    ELSE LET r == IF call.op = "reset_device"
                      THEN [logged |-> <<>>,
                            out |-> reset_device(t[1].touching, t[1].hovering,
                                                 call.device_id)]
                  ELSE process_movement_with_log(t[1].name, t[1].should_log,
                                                 t[1].touching, t[1].hovering,
                                                 call.device_id, call.action,
                                                 call.pointer_properties, call.flags)
         IN  <<[t[1] EXCEPT !.touching = r.out.touching,
                            !.hovering = r.out.hovering,
                            !.logged = r.logged,
                            !.same = t[1].same /\ r.out.result = call.result]>>

\* InputFilter::new: the chain is a BaseFilter, nothing has been applied
InputFilterNew ==
    /\ state = create_input_filter(<<BaseFilter>>)
    /\ filter_pc = "idle"
    /\ filter_last = <<>>
    /\ applied = <<>>

\* InputVerifier::new("Test", false), as every test makes its verifier, and
\* InputFilter::new
Init ==
    /\ name = "Test"
    /\ should_log = FALSE
    /\ logged = <<>>
    /\ twin = <<>>
    /\ touching_pointer_ids_by_device = <<>>
    /\ hovering_pointer_ids_by_device = <<>>
    /\ pc = "idle"
    /\ last = NoCall
    /\ pre = NoPre
    /\ down_since = [d \in DeviceIds |-> FALSE]
    /\ stream = NoStream
    /\ hover_stream = NoStream
    /\ fresh = [d \in DeviceIds |-> NewFresh]
    /\ InputFilterNew

\* Two verifiers made by InputVerifier::new under different names, the twin
\* with should_log set
LogInit ==
    /\ name = "Test"
    /\ should_log = FALSE
    /\ logged = <<>>
    /\ twin = <<NewTwin("Other", TRUE)>>
    /\ touching_pointer_ids_by_device = <<>>
    /\ hovering_pointer_ids_by_device = <<>>
    /\ pc = "idle"
    /\ last = NoCall
    /\ pre = NoPre
    /\ down_since = [d \in DeviceIds |-> FALSE]
    /\ stream = NoStream
    /\ hover_stream = NoStream
    /\ fresh = [d \in DeviceIds |-> NewFresh]
    /\ InputFilterNew

\* What a call leaves behind: the maps, the caller's position and the history
\* (tracked names the one history variable that is followed, if any)
Returns(call, out, tracked) ==
    /\ touching_pointer_ids_by_device' = out.touching
    /\ hovering_pointer_ids_by_device' = out.hovering
    /\ pc' = IF out.result = "Panic" THEN "panicked" ELSE "returned"
    /\ last' = [call EXCEPT !.result = out.result]
    /\ pre' = [touching |-> touching_pointer_ids_by_device,
               hovering |-> hovering_pointer_ids_by_device,
               down_since |-> down_since]
    /\ down_since' = NextDownSince(down_since, [call EXCEPT !.result = out.result])
    /\ stream' = IF tracked = "stream"
                    THEN NextStream(stream, touching_pointer_ids_by_device,
                                    [call EXCEPT !.result = out.result])
                 ELSE stream
    /\ hover_stream' = IF tracked = "hover_stream"
                          THEN NextHoverStream(hover_stream,
                                               hovering_pointer_ids_by_device,
                                               [call EXCEPT !.result = out.result])
                       ELSE hover_stream
    /\ fresh' = IF tracked = "fresh"
                   THEN NextFresh(fresh, [call EXCEPT !.result = out.result])
                ELSE fresh
    /\ twin' = NextTwin(twin, [call EXCEPT !.result = out.result])
    /\ UNCHANGED <<name, should_log>>
    /\ UNCHANGED filter_vars

\* One call of process_movement, from its entry to its return (or panic): the
\* line to the log, then the match
ProcessMovementCall(tracked) ==
    /\ pc = "idle"
    /\ \E device_id \in DeviceIds, action \in MotionActions,
          pointer_properties \in PointerLists, flags \in MotionFlagSets :
          /\ logged' = log_lines(name, should_log, device_id, action,
                                 pointer_properties)
          /\ Returns([op |-> "process_movement", device_id |-> device_id,
                      action |-> action, pointer_properties |-> pointer_properties,
                      flags |-> flags, result |-> "Ok"],
                     process_movement(touching_pointer_ids_by_device,
                                      hovering_pointer_ids_by_device,
                                      device_id, action, pointer_properties, flags),
                     tracked)

\* One call of reset_device
ResetDeviceCall(tracked) ==
    /\ pc = "idle"
    /\ \E device_id \in DeviceIds :
          /\ Returns([NoCall EXCEPT !.op = "reset_device", !.device_id = device_id],
                     reset_device(touching_pointer_ids_by_device,
                                  hovering_pointer_ids_by_device, device_id),
                     tracked)
          /\ logged' = <<>>

ProcessMovement == ProcessMovementCall("none")

ResetDevice == ResetDeviceCall("none")

StreamProcessMovement == ProcessMovementCall("stream")

StreamResetDevice == ResetDeviceCall("stream")

HoverStreamProcessMovement == ProcessMovementCall("hover_stream")

HoverStreamResetDevice == ResetDeviceCall("hover_stream")

FreshProcessMovement == ProcessMovementCall("fresh")

FreshResetDevice == ResetDeviceCall("fresh")

\* The caller has taken the result and is ready for the next event (a completed
\* sequence is forgotten once its last result is taken)
Return ==
    /\ pc = "returned"
    /\ pc' = "idle"
    /\ last' = NoCall
    /\ pre' = NoPre
    /\ stream' = IF stream.stage = 3 THEN NoStream ELSE stream
    /\ hover_stream' = IF hover_stream.stage = 4 THEN NoStream ELSE hover_stream
    /\ logged' = <<>>
    /\ twin' = IF twin = <<>> THEN twin ELSE <<[twin[1] EXCEPT !.logged = <<>>]>>
    /\ UNCHANGED <<touching_pointer_ids_by_device, hovering_pointer_ids_by_device,
                   down_since, fresh, name, should_log>>
    /\ UNCHANGED filter_vars

Next == ProcessMovement \/ ResetDevice \/ Return

Spec == Init /\ [][Next]_vars

\* The same program, with the history variable stream followed
StreamNext == StreamProcessMovement \/ StreamResetDevice \/ Return

StreamSpec == Init /\ [][StreamNext]_vars

\* The same program, with the history variable hover_stream followed
HoverStreamNext == HoverStreamProcessMovement \/ HoverStreamResetDevice \/ Return

HoverStreamSpec == Init /\ [][HoverStreamNext]_vars

\* The same program, with the history variable fresh followed
FreshNext == FreshProcessMovement \/ FreshResetDevice \/ Return

FreshSpec == Init /\ [][FreshNext]_vars

\* The same program with a twin that logs
LogProcessMovement == ProcessMovementCall("log")

LogResetDevice == ResetDeviceCall("log")

LogNext == LogProcessMovement \/ LogResetDevice \/ Return

LogSpec == LogInit /\ [][LogNext]_vars

\* One call of an InputFilter method; each holds the Mutex from its first line
\* to its return. All four return Ok.
FilterReturns(op, argument, value, next_state) ==
    /\ filter_pc = "idle"
    /\ filter_pc' = "returned"
    /\ filter_last' = <<[op |-> op, argument |-> argument, value |-> value,
                         found |-> state]>>
    /\ state' = next_state
    /\ UNCHANGED verifier_vars

NotifyConfigurationChanged ==
    \E config \in InputFilterConfigurations :
        /\ FilterReturns("notifyConfigurationChanged", <<config>>, FALSE,
                         notifyConfigurationChanged(state, config))
        /\ applied' = <<config>>

IsEnabled ==
    /\ FilterReturns("isEnabled", <<>>, isEnabled(state), state)
    /\ UNCHANGED applied

\* notifyKey and notifyInputDevicesChanged hand the event to the head of the
\* chain; they keep the chain and do not touch enabled
NotifyKey ==
    /\ \E event \in KeyEvents : FilterReturns("notifyKey", <<event>>, FALSE, state)
    /\ UNCHANGED applied

NotifyInputDevicesChanged ==
    /\ \E device_infos \in DeviceInfoLists :
          FilterReturns("notifyInputDevicesChanged", <<device_infos>>, FALSE, state)
    /\ UNCHANGED applied

\* The caller has taken the result
FilterReturn ==
    /\ filter_pc = "returned"
    /\ filter_pc' = "idle"
    /\ filter_last' = <<>>
    /\ UNCHANGED <<state, applied>>
    /\ UNCHANGED verifier_vars

FilterNext ==
    \/ NotifyConfigurationChanged
    \/ IsEnabled
    \/ NotifyKey
    \/ NotifyInputDevicesChanged
    \/ FilterReturn

FilterSpec == Init /\ [][FilterNext]_vars

\* ------------------------------------------------------------------------
\* Properties
\* ------------------------------------------------------------------------

\* A call has just been made: last is the call, pre the state it found
Called == pc # "idle"

\* The call just made is process_movement with an action of one of the kinds
Movement(kinds) ==
    Called /\ last.op = "process_movement" /\ last.action.kind \in kinds

Accepted == last.result = "Ok"

Rejected == last.result = "Err"

MapsUnchanged ==
    /\ touching_pointer_ids_by_device = pre.touching
    /\ hovering_pointer_ids_by_device = pre.hovering

\* The pointers of a device in a map: none when the device has no entry
set_of(map, device_id) == IF device_id \in DOMAIN map THEN map[device_id] ELSE {}

AllKinds == {a.kind : a \in MotionActions}

\* C1: a rejected process_movement call leaves the touching and the hovering
\* map exactly as it found them.
C1_RejectedCallsAreNoOps ==
    (Movement(AllKinds) /\ Rejected) => MapsUnchanged

\* C2: every device's hovering set holds at most one pointer identifier.
C2_HoveringAtMostOne ==
    \A d \in DOMAIN hovering_pointer_ids_by_device :
        Cardinality(hovering_pointer_ids_by_device[d]) <= 1

\* C3: an accepted Move or Cancel carries exactly the identifiers of the
\* device's touching set (stated for events that carry at least one pointer).
C3_MoveCancelSetEquality ==
    (/\ Movement({"Move", "Cancel"})
     /\ Accepted
     /\ Len(last.pointer_properties) > 0)
    => (/\ contains_key(pre.touching, last.device_id)
        /\ ids_of(last.pointer_properties) = pre.touching[last.device_id])

\* C4: a device's touching set goes from empty (or absent) to non-empty only
\* by an accepted Down for that device.
C4_OnlyDownStartsGesture ==
    Called =>
        \A d \in DeviceIds :
            (set_of(pre.touching, d) = {}
                /\ set_of(touching_pointer_ids_by_device, d) # {})
            => (Movement({"Down"}) /\ Accepted /\ last.device_id = d)

\* C5: a Down or PointerDown(i) whose pointer identifier (pointer_list[0].id,
\* resp. pointer_list[i].id) is already in the device's touching set is
\* rejected, and the touching map stays as it was.
C5_DuplicateDownRejected ==
    (/\ Movement({"Down", "PointerDown"})
     /\ in_bounds(last.pointer_properties, last.action.action_index)
     /\ id_at(last.pointer_properties, last.action.action_index)
            \in set_of(pre.touching, last.device_id))
    => (Rejected /\ touching_pointer_ids_by_device = pre.touching)

\* Down(P) right after Down(P): the second one has been rejected
C5_Witness ==
    /\ Movement({"Down"})
    /\ Rejected
    /\ pre.touching[last.device_id] = {id_at(last.pointer_properties, 0)}

\* C6: Up is accepted exactly when the device has a touching entry with exactly
\* one member and that member is pointer_list[0].id; with no entry, with zero or
\* several members, or with another sole member, it is rejected.
C6_UpAcceptedIff ==
    Movement({"Up"}) =>
        LET d    == last.device_id
            pp   == last.pointer_properties
            t    == pre.touching
            sole == contains_key(t, d) /\ Cardinality(t[d]) = 1
            same == in_bounds(pp, 0) /\ id_at(pp, 0) \in set_of(t, d)
        IN  /\ Accepted <=> (sole /\ same)
            /\ ~sole => Rejected
            /\ (in_bounds(pp, 0) /\ ~same) => Rejected

\* An Up for the sole touching pointer has been accepted
C6_Witness ==
    /\ Movement({"Up"})
    /\ Accepted
    /\ pre.touching[last.device_id] = {id_at(last.pointer_properties, 0)}

\* C7: an Up for a device is rejected unless an accepted Down for that device
\* came before it with no reset_device, accepted Up or accepted Cancel for the
\* device in between.
C7_UpNeedsPriorDown ==
    (Movement({"Up"}) /\ ~pre.down_since[last.device_id]) => Rejected

\* An Up with no Down before it has been rejected
C7_Witness ==
    /\ Movement({"Up"})
    /\ ~pre.down_since[last.device_id]
    /\ in_bounds(last.pointer_properties, 0)
    /\ Rejected

\* C8: on a device with no touching entry, Down(P), Move({P}), Up(P) is
\* accepted at every step and leaves the device without a touching entry.
C8_SinglePointerStream ==
    stream.stage >= 1 =>
        /\ stream.ok
        /\ stream.stage = 3 =>
              ~contains_key(touching_pointer_ids_by_device, stream.device_id)

\* The three calls have been made, the Up last
C8_Witness ==
    /\ stream.stage = 3
    /\ Movement({"Up"})
    /\ Accepted
    /\ last.device_id = stream.device_id

\* C9: a Cancel whose flags lack the CANCELED bit is rejected, whatever the
\* touching set and the pointer list, and the maps stay as they were.
C9_CancelWithoutFlagRejected ==
    (Movement({"Cancel"}) /\ "CANCELED" \notin last.flags)
    => (Rejected /\ MapsUnchanged)

\* Down(P), then Cancel({P}) with other flags set but not CANCELED: rejected
C9_Witness ==
    /\ Movement({"Cancel"})
    /\ last.flags = MotionFlagBits \ {"CANCELED"}
    /\ contains_key(pre.touching, last.device_id)
    /\ pre.touching[last.device_id] # {}
    /\ ids_of(last.pointer_properties) = pre.touching[last.device_id]
    /\ Rejected

\* C10: a Cancel with the CANCELED bit, for a device whose touching entry holds
\* every identifier of the event, is accepted and removes the device's entry.
C10_CancelRemovesEntry ==
    (/\ Movement({"Cancel"})
     /\ "CANCELED" \in last.flags
     /\ contains_key(pre.touching, last.device_id)
     /\ ids_of(last.pointer_properties) \subseteq pre.touching[last.device_id])
    => (Accepted /\ ~contains_key(touching_pointer_ids_by_device, last.device_id))

\* Cancel({P}) with CANCELED after Down(P): accepted, the entry is gone
C10_Witness ==
    /\ Movement({"Cancel"})
    /\ "CANCELED" \in last.flags
    /\ contains_key(pre.touching, last.device_id)
    /\ pre.touching[last.device_id] # {}
    /\ ids_of(last.pointer_properties) = pre.touching[last.device_id]
    /\ Accepted
    /\ ~contains_key(touching_pointer_ids_by_device, last.device_id)

\* The entry of one device in a map, as a map of its own
only(map, device_id) == [k \in (DOMAIN map) \cap {device_id} |-> map[k]]

\* What a call returns and leaves, given the maps it finds
outcome_of(touching, hovering, call) ==
    IF call.op = "reset_device" THEN reset_device(touching, hovering, call.device_id)
    ELSE process_movement(touching, hovering, call.device_id, call.action,
                          call.pointer_properties, call.flags)

\* C11: a call for device d leaves the entries of every other device as they
\* were, and its result and the entries it leaves for d are those the same call
\* gives on maps that hold d's entries alone.
C11_DevicesIndependent ==
    Called =>
        LET d     == last.device_id
            alone == outcome_of(only(pre.touching, d), only(pre.hovering, d), last)
        IN  /\ \A e \in DeviceIds \ {d} :
                  /\ only(touching_pointer_ids_by_device, e) = only(pre.touching, e)
                  /\ only(hovering_pointer_ids_by_device, e) = only(pre.hovering, e)
            /\ last.result = alone.result
            /\ only(touching_pointer_ids_by_device, d) = alone.touching
            /\ only(hovering_pointer_ids_by_device, d) = alone.hovering

\* An Up has been accepted for one device while another device has a pointer
\* down, which it still has
C11_Witness ==
    /\ Movement({"Up"})
    /\ Accepted
    /\ \E e \in DeviceIds \ {last.device_id} :
          /\ set_of(pre.touching, e) # {}
          /\ set_of(touching_pointer_ids_by_device, e) = set_of(pre.touching, e)

\* C12: HoverEnter is rejected exactly when the device has a hovering entry;
\* with no entry it is accepted and the hovering set becomes {pointer_list[0].id}.
C12_HoverEnterRejectedIffEntry ==
    Movement({"HoverEnter"}) =>
        LET d  == last.device_id
            pp == last.pointer_properties
        IN  /\ Rejected <=> contains_key(pre.hovering, d)
            /\ (~contains_key(pre.hovering, d) /\ in_bounds(pp, 0)) =>
                  /\ Accepted
                  /\ contains_key(hovering_pointer_ids_by_device, d)
                  /\ hovering_pointer_ids_by_device[d] = {id_at(pp, 0)}

\* HoverEnter(P) right after HoverEnter(P): the second one has been rejected
C12_Witness ==
    /\ Movement({"HoverEnter"})
    /\ Rejected
    /\ in_bounds(last.pointer_properties, 0)
    /\ pre.hovering[last.device_id] = {id_at(last.pointer_properties, 0)}

\* C13: on a device with no hovering entry, HoverEnter(P), HoverMove(P),
\* HoverExit(P), HoverEnter(P) is accepted at every step, and after the
\* HoverExit the device has no hovering entry.
C13_HoverSequence ==
    hover_stream.stage >= 1 =>
        /\ hover_stream.ok
        /\ hover_stream.stage = 3 =>
              ~contains_key(hovering_pointer_ids_by_device, hover_stream.device_id)

\* The four calls have been made, the second HoverEnter last
C13_Witness ==
    /\ hover_stream.stage = 4
    /\ Movement({"HoverEnter"})
    /\ Accepted
    /\ last.device_id = hover_stream.device_id
    /\ id_at(last.pointer_properties, 0) = hover_stream.pointer_id

\* C14: after reset_device(d) the device has no touching and no hovering entry,
\* and from then on every process_movement for d returns what a verifier
\* constructed at the reset and given d's events returns, and leaves for d the
\* entries that verifier holds.
C14_ResetIsFresh ==
    /\ (Called /\ last.op = "reset_device") =>
          /\ ~contains_key(touching_pointer_ids_by_device, last.device_id)
          /\ ~contains_key(hovering_pointer_ids_by_device, last.device_id)
    /\ \A d \in DeviceIds :
          /\ fresh[d].same
          /\ only(touching_pointer_ids_by_device, d) = fresh[d].touching
          /\ only(hovering_pointer_ids_by_device, d) = fresh[d].hovering

\* reset_device has returned for a device that had pointers down and hovering;
\* the shadow verifier of the device is a new one, and a Down for any identifier
\* would now be accepted
C14_Witness ==
    /\ Called
    /\ last.op = "reset_device"
    /\ set_of(pre.touching, last.device_id) # {}
    /\ set_of(pre.hovering, last.device_id) # {}
    /\ fresh[last.device_id] = NewFresh
    /\ \A id \in PointerIds :
          Down(touching_pointer_ids_by_device, hovering_pointer_ids_by_device,
               last.device_id, <<[id |-> id]>>).result = "Ok"

\* C15: reset_device never fails; a second reset_device(d) changes nothing, and
\* reset_device(d) for a device with no touching and no hovering entry leaves
\* both maps as they were.
C15_ResetIdempotentTotal ==
    (Called /\ last.op = "reset_device") =>
        LET d     == last.device_id
            again == reset_device(touching_pointer_ids_by_device,
                                  hovering_pointer_ids_by_device, d)
        IN  /\ pc = "returned"
            /\ last.result = "Ok"
            /\ again.result = "Ok"
            /\ again.touching = touching_pointer_ids_by_device
            /\ again.hovering = hovering_pointer_ids_by_device
            /\ (~contains_key(pre.touching, d) /\ ~contains_key(pre.hovering, d))
                  => MapsUnchanged

\* reset_device has returned for a device with no entries while another device
\* has pointers down
C15_Witness ==
    /\ Called
    /\ last.op = "reset_device"
    /\ ~contains_key(pre.touching, last.device_id)
    /\ ~contains_key(pre.hovering, last.device_id)
    /\ \E e \in DeviceIds : set_of(touching_pointer_ids_by_device, e) # {}

\* C16: process_movement never panics: every call returns Ok or Err, whatever
\* the pointer list and the action index.
C16_NeverPanics ==
    pc # "panicked"

\* C17: PointerDown, PointerUp, Up and Cancel for a device with no touching
\* entry, and HoverExit for a device with no hovering entry, are rejected and
\* leave both maps as they were.
C17_MissingSessionRejected ==
    /\ (/\ Movement({"PointerDown", "PointerUp", "Up", "Cancel"})
        /\ ~contains_key(pre.touching, last.device_id))
          => (Rejected /\ MapsUnchanged)
    /\ (/\ Movement({"HoverExit"})
        /\ ~contains_key(pre.hovering, last.device_id))
          => (Rejected /\ MapsUnchanged)

\* A Cancel with the CANCELED bit has been rejected for a device with no
\* touching entry
C17_Witness ==
    /\ Movement({"Cancel"})
    /\ "CANCELED" \in last.flags
    /\ ~contains_key(pre.touching, last.device_id)
    /\ Rejected
    /\ ~contains_key(touching_pointer_ids_by_device, last.device_id)

\* C18: a touching entry is removed only by an accepted Up, an accepted Cancel
\* or a reset_device for its device; a hovering entry only by an accepted
\* HoverExit or a reset_device for its device.
C18_EntriesRemovedOnlyBy ==
    Called =>
        \A d \in DeviceIds :
            /\ (contains_key(pre.touching, d)
                /\ ~contains_key(touching_pointer_ids_by_device, d))
                  => /\ last.device_id = d
                     /\ \/ last.op = "reset_device"
                        \/ Movement({"Up", "Cancel"}) /\ Accepted
            /\ (contains_key(pre.hovering, d)
                /\ ~contains_key(hovering_pointer_ids_by_device, d))
                  => /\ last.device_id = d
                     /\ \/ last.op = "reset_device"
                        \/ Movement({"HoverExit"}) /\ Accepted

\* The last pointer of a device has gone up by PointerUp and the device still
\* has its touching entry
C18_Witness ==
    /\ Movement({"PointerUp"})
    /\ Accepted
    /\ pre.touching[last.device_id] # {}
    /\ contains_key(touching_pointer_ids_by_device, last.device_id)
    /\ touching_pointer_ids_by_device[last.device_id] = {}

\* C19: Move is accepted exactly when the device has a touching entry and every
\* identifier of the pointer list is in its set, and is rejected otherwise; so
\* is Cancel when the CANCELED bit is set.
C19_MoveCancelSubsetCheck ==
    (\/ Movement({"Move"})
     \/ Movement({"Cancel"}) /\ "CANCELED" \in last.flags) =>
        LET d  == last.device_id
            matches == /\ contains_key(pre.touching, d)
                       /\ ids_of(last.pointer_properties) \subseteq pre.touching[d]
        IN  /\ Accepted <=> matches
            /\ Rejected <=> ~matches

\* A Move that names one of two touching pointers has been accepted
C19_Witness ==
    /\ Movement({"Move"})
    /\ Accepted
    /\ ids_of(last.pointer_properties) # {}
    /\ ids_of(last.pointer_properties) # pre.touching[last.device_id]

\* C20: PointerUp(i) for a device with a touching entry is accepted and leaves
\* the device's set as it was less pointer_list[i].id, the set unchanged when
\* the identifier was not in it.
C20_PointerUpAlwaysAccepted ==
    (/\ Movement({"PointerUp"})
     /\ contains_key(pre.touching, last.device_id)
     /\ in_bounds(last.pointer_properties, last.action.action_index)) =>
        LET d  == last.device_id
            id == id_at(last.pointer_properties, last.action.action_index)
        IN  /\ Accepted
            /\ contains_key(touching_pointer_ids_by_device, d)
            /\ touching_pointer_ids_by_device[d] = pre.touching[d] \ {id}
            /\ id \notin pre.touching[d]
                  => touching_pointer_ids_by_device[d] = pre.touching[d]
            /\ hovering_pointer_ids_by_device = pre.hovering

\* A PointerUp for an identifier that is not touching has been accepted
C20_Witness ==
    /\ Movement({"PointerUp"})
    /\ Accepted
    /\ pre.touching[last.device_id] # {}
    /\ id_at(last.pointer_properties, last.action.action_index)
          \notin pre.touching[last.device_id]

\* C21: HoverMove is never rejected; with no hovering entry for the device it
\* makes one, and pointer_list[0].id is in the device's hovering set afterwards.
C21_HoverMoveNeverRejected ==
    Movement({"HoverMove"}) =>
        LET d  == last.device_id
            pp == last.pointer_properties
        IN  /\ ~Rejected
            /\ contains_key(hovering_pointer_ids_by_device, d)
            /\ in_bounds(pp, 0) =>
                  /\ Accepted
                  /\ id_at(pp, 0) \in hovering_pointer_ids_by_device[d]
                  /\ hovering_pointer_ids_by_device[d] =
                        set_of(pre.hovering, d) \cup {id_at(pp, 0)}
                  /\ touching_pointer_ids_by_device = pre.touching

\* A HoverMove with no prior HoverEnter has been accepted and has made the entry
C21_Witness ==
    /\ Movement({"HoverMove"})
    /\ Accepted
    /\ ~contains_key(pre.hovering, last.device_id)
    /\ hovering_pointer_ids_by_device[last.device_id] =
          {id_at(last.pointer_properties, 0)}

\* C22: an event whose action is none of the nine the verifier knows is
\* accepted and leaves both maps as they were.
C22_OtherPassesThrough ==
    (/\ Called
     /\ last.op = "process_movement"
     /\ last.action.kind \notin {"Down", "PointerDown", "Move", "PointerUp", "Up",
                                 "Cancel", "HoverEnter", "HoverMove", "HoverExit"})
        => (Accepted /\ MapsUnchanged)

\* Another action has been accepted, with an empty pointer list, for a device
\* that has neither entry while some device has pointers down
C22_Witness ==
    /\ Movement({"Other"})
    /\ Accepted
    /\ Len(last.pointer_properties) = 0
    /\ ~contains_key(touching_pointer_ids_by_device, last.device_id)
    /\ ~contains_key(hovering_pointer_ids_by_device, last.device_id)
    /\ \E e \in DeviceIds : set_of(touching_pointer_ids_by_device, e) # {}

\* C23: a verifier that does not log and its twin, made with another name and
\* with should_log set and given the same calls, return the same result at
\* every call and hold the same touching and hovering maps after every call.
C23_LoggingDoesNotInfluence ==
    twin # <<>> =>
        /\ twin[1].should_log # should_log
        /\ twin[1].name # name
        /\ twin[1].same
        /\ twin[1].touching = touching_pointer_ids_by_device
        /\ twin[1].hovering = hovering_pointer_ids_by_device

\* The twin, which logs, has written its line and the verifier none; the
\* call, a Move for a device with a pointer hovering, was rejected by both
C23_Witness ==
    /\ Movement({"Move"})
    /\ Rejected
    /\ logged = <<>>
    /\ twin # <<>>
    /\ Len(twin[1].logged) = 1
    /\ twin[1].logged[1].on = twin[1].name
    /\ twin[1].same
    /\ set_of(twin[1].hovering, last.device_id) # {}

\* The InputFilter method that has just returned is op
FilterCalled(op) == filter_last # <<>> /\ filter_last[1].op = op

\* The last configuration applied to the InputFilter asks for a filter
AppliedEnables ==
    /\ applied # <<>>
    /\ \/ applied[1].stickyKeysEnabled
       \/ applied[1].bounceKeysThresholdNs > 0

\* C24: an InputFilter to which no configuration has been applied is not
\* enabled, and isEnabled() returns false.
C24_NewFilterNotEnabled ==
    applied = <<>> =>
        /\ ~state.enabled
        /\ FilterCalled("isEnabled") => filter_last[1].value = FALSE

\* isEnabled() has returned false on an InputFilter no configuration was
\* applied to
C24_Witness ==
    /\ filter_pc = "returned"
    /\ FilterCalled("isEnabled")
    /\ applied = <<>>
    /\ filter_last[1].value = FALSE

\* C25: notifyConfigurationChanged with stickyKeysEnabled or with
\* bounceKeysThresholdNs > 0 returns, and isEnabled() is true after it.
C25_EnablingConfigurationEnables ==
    AppliedEnables =>
        /\ state.enabled
        /\ isEnabled(state)
        /\ FilterCalled("notifyConfigurationChanged") => filter_pc = "returned"
        /\ FilterCalled("isEnabled") => filter_last[1].value = TRUE

\* isEnabled() has returned true after a configuration with bounce keys only,
\* the first one applied
C25_Witness ==
    /\ filter_pc = "returned"
    /\ FilterCalled("isEnabled")
    /\ filter_last[1].value = TRUE
    /\ applied # <<>>
    /\ ~applied[1].stickyKeysEnabled
    /\ applied[1].bounceKeysThresholdNs > 0
    /\ state.first_filter[1].kind = "BounceKeysFilter"

\* C26: a Move call, accepted or rejected, leaves the touching and the hovering
\* map as they were; a Move for a device with no entry makes none.
C26_MoveChangesNothing ==
    Movement({"Move"}) =>
        /\ pc = "returned"
        /\ MapsUnchanged

\* A Move has been rejected for a device with no touching entry, which still
\* has none, while the other device has pointers down
C26_Witness ==
    /\ Movement({"Move"})
    /\ Rejected
    /\ ~contains_key(pre.touching, last.device_id)
    /\ ~contains_key(touching_pointer_ids_by_device, last.device_id)
    /\ \E e \in DeviceIds : set_of(touching_pointer_ids_by_device, e) # {}

TouchKinds == {"Down", "PointerDown", "Move", "PointerUp", "Up", "Cancel"}

HoverKinds == {"HoverEnter", "HoverMove", "HoverExit"}

\* C27: the six touch actions leave the hovering map as it was and return what
\* they return with an empty hovering map; the three hover actions leave the
\* touching map as it was and return what they return with an empty touching map.
C27_TouchHoverDecoupled ==
    /\ Movement(TouchKinds) =>
          LET alone == outcome_of(pre.touching, <<>>, last)
          IN  /\ hovering_pointer_ids_by_device = pre.hovering
              /\ last.result = alone.result
              /\ touching_pointer_ids_by_device = alone.touching
    /\ Movement(HoverKinds) =>
          LET alone == outcome_of(<<>>, pre.hovering, last)
          IN  /\ touching_pointer_ids_by_device = pre.touching
              /\ last.result = alone.result
              /\ hovering_pointer_ids_by_device = alone.hovering

\* A Down has been accepted for a pointer that is hovering on the same device
C27_Witness ==
    /\ Movement({"Down"})
    /\ Accepted
    /\ id_at(last.pointer_properties, 0) \in set_of(pre.hovering, last.device_id)
    /\ id_at(last.pointer_properties, 0)
          \in set_of(hovering_pointer_ids_by_device, last.device_id)

\* C28: as long as no call has panicked, every hovering entry in the map is a
\* non-empty set; an accepted HoverExit removes the entry it empties.
C28_HoveringEntriesNonEmpty ==
    pc # "panicked" =>
        /\ \A d \in DOMAIN hovering_pointer_ids_by_device :
              hovering_pointer_ids_by_device[d] # {}
        /\ (Movement({"HoverExit"}) /\ Accepted) =>
              ~contains_key(hovering_pointer_ids_by_device, last.device_id)

\* A HoverExit has been accepted and has removed the entry of its device, while
\* the other device has a pointer hovering
C28_Witness ==
    /\ Movement({"HoverExit"})
    /\ Accepted
    /\ pre.hovering[last.device_id] = {id_at(last.pointer_properties, 0)}
    /\ ~contains_key(hovering_pointer_ids_by_device, last.device_id)
    /\ \E e \in DeviceIds : set_of(hovering_pointer_ids_by_device, e) # {}

\* C29: as long as no call has panicked, every touching entry in the map is a
\* non-empty set.
C29_TouchingEntriesNonEmpty ==
    pc # "panicked" =>
        \A d \in DOMAIN touching_pointer_ids_by_device :
            touching_pointer_ids_by_device[d] # {}

\* C30: isEnabled() is true exactly when the last configuration applied had
\* stickyKeysEnabled or bounceKeysThresholdNs > 0.
C30_EnabledReflectsLastConfiguration ==
    (FilterCalled("isEnabled") /\ applied # <<>>) =>
        (filter_last[1].value = TRUE <=> AppliedEnables)

=============================================================================
